---------------------------- MODULE Spec2Model ----------------------------
(***************************************************************************)
(* A model of the Universe engine of wasm-game-of-life (src/src/lib.rs).   *)
(*                                                                         *)
(* The Universe is { width: u32, height: u32, cells: Vec<Cell> }.  The     *)
(* crate is built for wasm32, so usize is as wide as u32 and a Vec holds   *)
(* at most isize::MAX bytes.  The model keeps the machine word but scales  *)
(* it from 32 bits to WordBits bits, so that the values at which the u32   *)
(* arithmetic overflows stay within reach of explicit-state checking; the  *)
(* constructor's 64 x 64 grid is scaled to InitialSide x InitialSide.      *)
(* Every u32 operation of the source is modelled with its overflow: it     *)
(* wraps in a build without overflow checks (release) and panics in a      *)
(* build with them (debug); which build runs is fixed in the first state.  *)
(* A panic ends the run of the instance (the wasm module traps); what the  *)
(* operation wrote to the Universe before it panicked stays written.       *)
(***************************************************************************)
EXTENDS Integers, Sequences, FiniteSets, TLC

\* Scaled width of u32 / usize in bits.
WordBits == 6
\* Scaled side of the grid the constructor builds.
InitialSide == 2
\* Largest small dimension and coordinate the callers pass.
MaxDim == 2
\* Longest coordinate list passed to set_cells.
MaxCoords == 2
\* Most cells of a grid that tick is called on.
MaxCells == 9
\* Largest side of the grids that hold the still life.
MaxStillSide == 5
\* Most cells of the grids that randomize is called on with every draw.
MaxRandomCells == 4
\* Most cells of the grids that are ticked both as they are and shifted.
MaxShiftCells == 6
\* Largest side of the grids that hold the blinker.
MaxBlinkerSide == 5

WordMod == 2 ^ WordBits
\* isize::MAX, the largest number of one-byte cells a Vec can hold.
IsizeMax == 2 ^ (WordBits - 1) - 1

\* enum Cell { Dead = 0, Alive = 1 }
Dead == 0
Alive == 1
Cell == {Dead, Alive}

VARIABLES
    width,           \* Universe.width
    height,          \* Universe.height
    cells,           \* Universe.cells; cells[i + 1] is the source's cells[i]
    status,          \* "ok", or "panic" once an operation has panicked
    overflowChecks,  \* TRUE: u32 overflow panics (debug); FALSE: it wraps
    op               \* the last operation called, with its arguments

vars == <<width, height, cells, status, overflowChecks, op>>

-----------------------------------------------------------------------------
(* u32 arithmetic *)

\* The value a u32 expression whose mathematical value is x holds when it wraps.
Wrap(x) == x % WordMod

\* A u32 expression whose mathematical value is x overflows (or underflows).
Overflows(x) == x < 0 \/ x >= WordMod

\* Mutant of toggle: the cell is set, not flipped.
toggle_sets_alive(cell) == Alive

\* Cell::toggle
toggle(cell) == IF cell = Dead THEN Alive ELSE Dead

\* Mutant of get_index: the buffer is taken column-major.
get_index_column_major(w, row, column) == Wrap(Wrap(column * w) + row)

\* Universe::get_index: (row * self.width + column) as usize
get_index(w, row, column) == Wrap(Wrap(row * w) + column)

\* get_index panics: an overflow check fails on row * width or on the sum.
get_index_panics(w, row, column) ==
    overflowChecks /\ (Overflows(row * w) \/ Overflows(Wrap(row * w) + column))

\* self.cells[idx] panics: the index is outside the buffer.
OutOfBounds(c, idx) == idx >= Len(c)

-----------------------------------------------------------------------------
(* live_neighbour_count *)

\* [self.height - 1, 0, 1] and [self.width - 1, 0, 1]
Deltas(n) == <<Wrap(n - 1), 0, 1>>

\* Mutant of DeltaPairs: the (0, 0) pair is not skipped, so a cell counts itself.
DeltaPairsWithSelf(w, h) ==
    LET dr == Deltas(h)
        dc == Deltas(w)
    IN  << <<dr[1], dc[1]>>, <<dr[1], dc[2]>>, <<dr[1], dc[3]>>,
           <<dr[2], dc[1]>>, <<dr[2], dc[2]>>, <<dr[2], dc[3]>>,
           <<dr[3], dc[1]>>, <<dr[3], dc[2]>>, <<dr[3], dc[3]>> >>

\* The (delta_row, delta_col) pairs the two loops visit, in order, without (0, 0).
DeltaPairs(w, h) ==
    LET dr == Deltas(h)
        dc == Deltas(w)
    IN  SelectSeq(<< <<dr[1], dc[1]>>, <<dr[1], dc[2]>>, <<dr[1], dc[3]>>,
                     <<dr[2], dc[1]>>, <<dr[2], dc[2]>>, <<dr[2], dc[3]>>,
                     <<dr[3], dc[1]>>, <<dr[3], dc[2]>>, <<dr[3], dc[3]>> >>,
                  LAMBDA d : ~(d[1] = 0 /\ d[2] = 0))

\* Mutant of NeighbourIndex: the row above row 0 is taken to be row 0 itself,
\* not the last row.
NeighbourIndexClampedAbove(w, h, row, column, d) ==
    get_index(w, IF row = 0 /\ d[1] > 1 THEN 0 ELSE Wrap(row + d[1]) % h,
              Wrap(column + d[2]) % w)

\* idx of the neighbour at delta d of (row, column).
NeighbourIndex(w, h, row, column, d) ==
    get_index(w, Wrap(row + d[1]) % h, Wrap(column + d[2]) % w)

\* Visiting the neighbour at delta d panics.
NeighbourPanics(w, h, c, row, column, d) ==
    \/ h = 0 \/ w = 0
    \/ overflowChecks /\ (Overflows(row + d[1]) \/ Overflows(column + d[2]))
    \/ /\ h # 0 /\ w # 0
       /\ \/ get_index_panics(w, Wrap(row + d[1]) % h, Wrap(column + d[2]) % w)
          \/ OutOfBounds(c, NeighbourIndex(w, h, row, column, d))

live_neighbour_count_panics(w, h, c, row, column) ==
    \/ overflowChecks /\ (Overflows(h - 1) \/ Overflows(w - 1))
    \/ LET ds == DeltaPairs(w, h)
       IN  \E k \in 1..Len(ds) : NeighbourPanics(w, h, c, row, column, ds[k])

RECURSIVE SumCells(_, _, _, _, _, _, _)
SumCells(w, h, c, row, column, ds, k) ==
    IF k > Len(ds) THEN 0
    ELSE c[NeighbourIndex(w, h, row, column, ds[k]) + 1]
         + SumCells(w, h, c, row, column, ds, k + 1)

\* Universe::live_neighbour_count, where it does not panic.
live_neighbour_count(w, h, c, row, column) ==
    SumCells(w, h, c, row, column, DeltaPairs(w, h), 1)

-----------------------------------------------------------------------------
(* The operations, as functions of the Universe they are called on.  Each  *)
(* returns the Universe it leaves and whether it returned or panicked.     *)

Outcome(w, h, c, s) == [width |-> w, height |-> h, cells |-> c, status |-> s]

DeadCells(n) == [i \in 1..n |-> Dead]

\* Mutant of next_cell: a live cell with three live neighbours dies.
next_cell_dies_on_three(cell, live_neighbours) ==
    CASE cell = Alive /\ live_neighbours = 2 -> Alive
      [] cell = Dead /\ live_neighbours = 3 -> Alive
      [] OTHER -> Dead

\* Mutant of next_cell: the birth arm takes every count but three.
next_cell_born_unless_three(cell, live_neighbours) ==
    CASE cell = Alive /\ live_neighbours < 2 -> Dead
      [] cell = Alive /\ (live_neighbours = 2 \/ live_neighbours = 3) -> Alive
      [] cell = Alive /\ live_neighbours > 3 -> Dead
      [] cell = Dead /\ live_neighbours # 3 -> Alive
      [] OTHER -> cell

\* The match of Universe::tick.
next_cell(cell, live_neighbours) ==
    CASE cell = Alive /\ live_neighbours < 2 -> Dead
      [] cell = Alive /\ (live_neighbours = 2 \/ live_neighbours = 3) -> Alive
      [] cell = Alive /\ live_neighbours > 3 -> Dead
      [] cell = Dead /\ live_neighbours = 3 -> Alive
      [] OTHER -> cell

\* One pass of the loop body of tick panics.
TickBodyPanics(w, h, c, row, col) ==
    \/ get_index_panics(w, row, col)
    \/ OutOfBounds(c, get_index(w, row, col))
    \/ live_neighbour_count_panics(w, h, c, row, col)

\* The loops of tick from their k-th pass on (row = k div width, col = k mod
\* width); next is the local buffer, c is self.cells, which the loops only read.
RECURSIVE TickLoop(_, _, _, _, _)
TickLoop(w, h, c, next, k) ==
    IF k >= w * h THEN Outcome(w, h, next, "ok")
    ELSE LET row == k \div w
             col == k % w
             idx == get_index(w, row, col)
         IN  IF TickBodyPanics(w, h, c, row, col) THEN Outcome(w, h, c, "panic")
             ELSE TickLoop(w, h, c,
                      [next EXCEPT ![idx + 1] =
                          next_cell(c[idx + 1], live_neighbour_count(w, h, c, row, col))],
                      k + 1)

\* Mutant of tick: one buffer, read and written in the same pass.
RECURSIVE TickLoopInPlace(_, _, _, _)
TickLoopInPlace(w, h, c, k) ==
    IF k >= w * h THEN Outcome(w, h, c, "ok")
    ELSE LET row == k \div w
             col == k % w
             idx == get_index(w, row, col)
         IN  IF TickBodyPanics(w, h, c, row, col) THEN Outcome(w, h, c, "panic")
             ELSE TickLoopInPlace(w, h,
                      [c EXCEPT ![idx + 1] =
                          next_cell(c[idx + 1], live_neighbour_count(w, h, c, row, col))],
                      k + 1)

tick_in_place(w, h, c) == TickLoopInPlace(w, h, c, 0)

\* Mutant of tick: the deltas height - 1 and width - 1 are computed once,
\* before the loops, so they are computed on a grid without rows or columns too.
tick_hoists_deltas(w, h, c) ==
    IF overflowChecks /\ (Overflows(h - 1) \/ Overflows(w - 1))
    THEN Outcome(w, h, c, "panic")
    ELSE TickLoop(w, h, c, c, 0)

\* Universe::tick
tick(w, h, c) == TickLoop(w, h, c, c, 0)

\* Universe::toggle_cell
toggle_cell(w, h, c, row, column) ==
    IF get_index_panics(w, row, column) \/ OutOfBounds(c, get_index(w, row, column))
    THEN Outcome(w, h, c, "panic")
    ELSE Outcome(w, h, [c EXCEPT ![get_index(w, row, column) + 1] = toggle(@)], "ok")

\* (0..n).map(|_i| Cell::Dead).collect() into a Universe whose dimensions
\* are already w and h, where n is the u32 product of the two dimensions.
Reallocate(w, h, c, n) ==
    IF overflowChecks /\ Overflows(n) THEN Outcome(w, h, c, "panic")
    ELSE IF Wrap(n) > IsizeMax THEN Outcome(w, h, c, "panic")
    ELSE Outcome(w, h, DeadCells(Wrap(n)), "ok")

\* Universe::set_width
set_width(w, h, c, new_width) == Reallocate(new_width, h, c, new_width * h)

\* Mutant of set_height: the new value is stored in width.
set_height_stores_width(w, h, c, new_height) ==
    Reallocate(new_height, h, c, new_height * h)

\* Universe::set_height
set_height(w, h, c, new_height) == Reallocate(w, new_height, c, w * new_height)

\* Mutant of get_random_cell: the test is <= 0.5.
get_random_cell_at_most_half(draw) == IF draw <= 5 THEN Alive ELSE Dead

\* get_random_cell, on a draw of Math.random() given in tenths.
get_random_cell(draw) == IF draw < 5 THEN Alive ELSE Dead

\* The loops of randomize from their k-th pass on; pass k takes draws[k].
RECURSIVE RandomizeLoop(_, _, _, _, _)
RandomizeLoop(w, h, c, draws, k) ==
    IF k >= w * h THEN Outcome(w, h, c, "ok")
    ELSE LET row == k \div w
             col == k % w
         IN  IF get_index_panics(w, row, col) \/ OutOfBounds(c, get_index(w, row, col))
             THEN Outcome(w, h, c, "panic")
             ELSE RandomizeLoop(w, h,
                      [c EXCEPT ![get_index(w, row, col) + 1] = get_random_cell(draws[k])],
                      draws, k + 1)

\* Universe::randomize
randomize(w, h, c, draws) == RandomizeLoop(w, h, c, draws, 0)

\* The calls of get_random_cell that the loops of randomize make from their
\* k-th pass on: one in every pass that gets as far as its assignment, whose
\* right-hand side is evaluated before the buffer is indexed.
RECURSIVE RandomizeDrawCount(_, _, _, _)
RandomizeDrawCount(w, h, c, k) ==
    IF k >= w * h THEN 0
    ELSE LET row == k \div w
             col == k % w
         IN  IF get_index_panics(w, row, col) THEN 0
             ELSE IF OutOfBounds(c, get_index(w, row, col)) THEN 1
             ELSE 1 + RandomizeDrawCount(w, h, c, k + 1)

\* The loops of reset from their k-th pass on.
RECURSIVE ResetLoop(_, _, _, _)
ResetLoop(w, h, c, k) ==
    IF k >= w * h THEN Outcome(w, h, c, "ok")
    ELSE LET row == k \div w
             col == k % w
         IN  IF get_index_panics(w, row, col) \/ OutOfBounds(c, get_index(w, row, col))
             THEN Outcome(w, h, c, "panic")
             ELSE ResetLoop(w, h, [c EXCEPT ![get_index(w, row, col) + 1] = Dead], k + 1)

\* Mutant of reset: the loop over the rows starts at row 1.
reset_from_second_row(w, h, c) == ResetLoop(w, h, c, w)

\* Universe::reset
reset(w, h, c) == ResetLoop(w, h, c, 0)

\* The loop of set_cells from the k-th pair of coords on.
RECURSIVE SetCellsLoop(_, _, _, _, _)
SetCellsLoop(w, h, c, coords, k) ==
    IF k > Len(coords) THEN Outcome(w, h, c, "ok")
    ELSE LET row == coords[k][1]
             col == coords[k][2]
         IN  IF get_index_panics(w, row, col) \/ OutOfBounds(c, get_index(w, row, col))
             THEN Outcome(w, h, c, "panic")
             ELSE SetCellsLoop(w, h, [c EXCEPT ![get_index(w, row, col) + 1] = Alive],
                               coords, k + 1)

\* Mutant of set_cells: the addressed cells are flipped, not set.
RECURSIVE SetCellsToggleLoop(_, _, _, _, _)
SetCellsToggleLoop(w, h, c, coords, k) ==
    IF k > Len(coords) THEN Outcome(w, h, c, "ok")
    ELSE LET out == toggle_cell(w, h, c, coords[k][1], coords[k][2])
         IN  IF out.status = "panic" THEN out
             ELSE SetCellsToggleLoop(w, h, out.cells, coords, k + 1)

set_cells_toggles(w, h, c, coords) == SetCellsToggleLoop(w, h, c, coords, 1)

\* Universe::set_cells
set_cells(w, h, c, coords) == SetCellsLoop(w, h, c, coords, 1)

\* The symbols of Display::fmt.  Each literal is one character outside ASCII
\* (the source text shows the bytes of both as ???); they are kept apart here
\* by the branch of the test that chooses them.
DeadGlyph == "dead glyph"
AliveGlyph == "alive glyph"

\* let symbol = if cell == Cell::Dead { .. } else { .. };
Glyph(cell) == IF cell = Dead THEN DeadGlyph ELSE AliveGlyph

\* The for loop of Display::fmt over cells.chunks(width), from offset k: the
\* symbols of each chunk (the last one may be short), then a newline.
RECURSIVE FmtLines(_, _, _)
FmtLines(w, c, k) ==
    IF k >= Len(c) THEN <<>>
    ELSE LET last == IF k + w <= Len(c) THEN k + w ELSE Len(c)
         IN  [i \in 1..(last - k) |-> Glyph(c[k + i])] \o <<"\n">> \o FmtLines(w, c, last)

\* Universe::render, self.to_string() through Display::fmt: the text as a
\* sequence of characters.  slice::chunks panics when the chunk size is 0.
render(w, h, c) ==
    IF w = 0 THEN [status |-> "panic", text |-> <<>>]
    ELSE [status |-> "ok", text |-> FmtLines(w, c, 0)]

\* Universe::new, on the draws its cells are built from (scaled: 64 -> InitialSide).
new(draws) ==
    Outcome(InitialSide, InitialSide,
            [i \in 1..(InitialSide * InitialSide) |-> get_random_cell(draws[i - 1])], "ok")

-----------------------------------------------------------------------------
(* The inputs the callers pass *)

\* Draws of Math.random(), in tenths: one on each side of the threshold.
Draws == {4, 5}

\* The first n draws of the random source, for four sources: always below the
\* threshold, never below it, and alternating from either side.
DrawStreams(n) ==
    {[k \in 0..(n - 1) |-> IF (a + b * k) % 2 = 0 THEN 4 ELSE 5] : a \in {0, 1}, b \in {0, 1}}

\* u32 dimensions: the small ones, and two large enough for the product of
\* the dimensions to overflow the word.
DimArgs == (0..MaxDim) \cup {WordMod \div 2, WordMod \div 2 + 1}

\* Row and column arguments, in and out of range of the small grids.
CoordArgs == 0..MaxDim

RECURSIVE SeqsUpTo(_, _)
SeqsUpTo(S, n) ==
    IF n = 0 THEN {<<>>}
    ELSE SeqsUpTo(S, n - 1) \cup
         {Append(s, x) : s \in {t \in SeqsUpTo(S, n - 1) : Len(t) = n - 1}, x \in S}

\* In the full machine set_cells is called with at most one pair: a longer
\* list acts as its pairs do in turn (SpecSetCells takes the longer lists).
CoordLists == SeqsUpTo(CoordArgs \X CoordArgs, 1)

-----------------------------------------------------------------------------
(* The state machine: a Universe from new(), and any sequence of calls *)

\* The Universe becomes what the operation left; the call is recorded.
Becomes(out, name, args) ==
    /\ width' = out.width
    /\ height' = out.height
    /\ cells' = out.cells
    /\ status' = out.status
    /\ op' = [name |-> name, args |-> args]
    /\ UNCHANGED overflowChecks

Init ==
    /\ overflowChecks \in BOOLEAN
    /\ \E draws \in DrawStreams(InitialSide * InitialSide) :
          /\ width = new(draws).width
          /\ height = new(draws).height
          /\ cells = new(draws).cells
          /\ status = new(draws).status
    /\ op = [name |-> "new", args |-> <<>>]

Tick ==
    /\ status = "ok"
    /\ Becomes(tick(width, height, cells), "tick", <<>>)

ToggleCell ==
    /\ status = "ok"
    /\ \E row \in CoordArgs, column \in CoordArgs :
          Becomes(toggle_cell(width, height, cells, row, column),
                  "toggle_cell", <<row, column>>)

SetWidth ==
    /\ status = "ok"
    /\ \E new_width \in DimArgs :
          Becomes(set_width(width, height, cells, new_width), "set_width", <<new_width>>)

SetHeight ==
    /\ status = "ok"
    /\ \E new_height \in DimArgs :
          Becomes(set_height(width, height, cells, new_height), "set_height", <<new_height>>)

Randomize ==
    /\ status = "ok"
    /\ \E draws \in DrawStreams(Len(cells)) :
          Becomes(randomize(width, height, cells, draws), "randomize", <<>>)

Reset ==
    /\ status = "ok"
    /\ Becomes(reset(width, height, cells), "reset", <<>>)

SetCells ==
    /\ status = "ok"
    /\ \E coords \in CoordLists :
          Becomes(set_cells(width, height, cells, coords), "set_cells", <<>>)

\* render borrows the Universe and returns the text, which the record keeps.
Render ==
    /\ status = "ok"
    /\ LET out == render(width, height, cells)
       IN  /\ status' = out.status
           /\ op' = [name |-> "render", args |-> <<out.text>>]
    /\ UNCHANGED <<width, height, cells, overflowChecks>>

Next ==
    \/ Tick \/ ToggleCell \/ SetWidth \/ SetHeight
    \/ Randomize \/ Reset \/ SetCells \/ Render

Spec == Init /\ [][Next]_vars

-----------------------------------------------------------------------------
(* Properties of the full machine (Spec) *)

\* The buffer is as long as the grid is large: the Universe is a grid.
IsGrid == Len(cells) = width * height

\* The last call was name, and it returned.
Returned(name) == op.name = name /\ status = "ok"

\* C3: in every state reached from new() by calls that all returned, the
\* length of the cells buffer equals width * height.
C3_LengthIsWidthTimesHeight == status = "ok" => Len(cells) = width * height

\* C4: toggle_cell(row, column) with row >= height or column >= width fails
\* (here: does not return) and leaves the cells and the dimensions unchanged.
C4_ToggleOutOfRangeFails ==
    [][(op'.name = "toggle_cell" /\ (op'.args[1] >= height \/ op'.args[2] >= width))
        => (status' = "panic" /\ cells' = cells /\ width' = width /\ height' = height)]_vars

\* C6: a set_width(w) that returns leaves width = w, height unchanged, w * height
\* cells, all Dead; a set_height(h) that returns leaves height = h, width
\* unchanged, width * h cells, all Dead.
C6_ResizeReallocatesDead ==
    [][((op'.name = "set_width" /\ status' = "ok") =>
           (/\ width' = op'.args[1]
            /\ height' = height
            /\ cells' = DeadCells(op'.args[1] * height)))
       /\
       ((op'.name = "set_height" /\ status' = "ok") =>
           (/\ height' = op'.args[1]
            /\ width' = width
            /\ cells' = DeadCells(width * op'.args[1])))]_vars

\* C7: on a grid, toggle_cell(row, column) with row < height and column < width
\* returns, flips the cell at buffer index row * width + column and leaves
\* every other cell, and the dimensions, as they were.
C7_ToggleFlipsExactlyOne ==
    [][(op'.name = "toggle_cell" /\ IsGrid /\ op'.args[1] < height /\ op'.args[2] < width)
        => /\ status' = "ok"
           /\ width' = width /\ height' = height
           /\ Len(cells') = Len(cells)
           /\ \A i \in 0..(Len(cells) - 1) :
                 cells'[i + 1] = IF i = op'.args[1] * width + op'.args[2]
                                 THEN (IF cells[i + 1] = Alive THEN Dead ELSE Alive)
                                 ELSE cells[i + 1]]_vars

\* A toggle_cell in range has returned, and left the cell it addressed Alive
\* beside a Dead one.
C7_Witness ==
    /\ Returned("toggle_cell") /\ IsGrid
    /\ op.args[1] < height /\ op.args[2] < width
    /\ cells[op.args[1] * width + op.args[2] + 1] = Alive
    /\ \E i \in 1..Len(cells) : cells[i] = Dead

\* C8: on a grid, a second toggle_cell(r, c) right after a first one, with (r, c)
\* in range, returns and leaves the grid as it was before the first.
C8_ToggleTwiceIsIdentity ==
    [][(op'.name = "toggle_cell" /\ IsGrid /\ op'.args[1] < height /\ op'.args[2] < width)
        => LET second == toggle_cell(width', height', cells', op'.args[1], op'.args[2])
           IN  /\ status' = "ok"
               /\ second.status = "ok"
               /\ second.cells = cells
               /\ second.width = width /\ second.height = height]_vars

\* A toggle_cell in range has returned and left the cell it addressed Dead, on a
\* grid with another cell Alive: the second call is to bring both back.
C8_Witness ==
    /\ Returned("toggle_cell") /\ IsGrid
    /\ op.args[1] < height /\ op.args[2] < width
    /\ cells[op.args[1] * width + op.args[2] + 1] = Dead
    /\ \E i \in 1..Len(cells) : cells[i] = Alive

-----------------------------------------------------------------------------
(* tick on any grid (SpecTick).  Every grid is reached from new() by        *)
(* set_width, set_height and toggle_cell; here the first state is any grid  *)
(* of at most MaxCells cells, and tick is called on it again and again.     *)

InitTick ==
    /\ overflowChecks \in BOOLEAN
    /\ \E w \in 0..MaxCells, h \in 0..MaxCells :
          /\ w * h <= MaxCells
          /\ width = w
          /\ height = h
          /\ cells \in [1..(w * h) -> Cell]
    /\ status = "ok"
    /\ op = [name |-> "grid", args |-> <<>>]

SpecTick == InitTick /\ [][Tick]_vars

\* The cell of grid c (w wide, h high) at (row + dr, column + dc) on the torus.
TorusCell(w, h, c, row, column, dr, dc) ==
    c[((row + dr) % h) * w + ((column + dc) % w) + 1]

\* The number of Alive cells among the 8 torus neighbours of (row, column),
\* one for each delta of {-1, 0, 1} x {-1, 0, 1} but (0, 0).
MooreCount(w, h, c, row, column) ==
    TorusCell(w, h, c, row, column, -1, -1) + TorusCell(w, h, c, row, column, -1, 0)
    + TorusCell(w, h, c, row, column, -1, 1) + TorusCell(w, h, c, row, column, 0, -1)
    + TorusCell(w, h, c, row, column, 0, 1) + TorusCell(w, h, c, row, column, 1, -1)
    + TorusCell(w, h, c, row, column, 1, 0) + TorusCell(w, h, c, row, column, 1, 1)

\* The rule of Life: the next state of a cell in state s with n live neighbours.
LifeRule(s, n) ==
    IF s = Alive THEN (IF n = 2 \/ n = 3 THEN Alive ELSE Dead)
    ELSE (IF n = 3 THEN Alive ELSE Dead)

\* C1: on a grid with width >= 1 and height >= 1, tick returns, keeps the
\* dimensions, and leaves in every cell the rule of Life applied to the cell's
\* state and live_neighbour_count before the tick; where both dimensions are
\* at least 2 that count is the number of Alive torus neighbours before the tick.
C1_TickAppliesRuleToPreTick ==
    [][(op'.name = "tick" /\ IsGrid /\ width >= 1 /\ height >= 1)
        => /\ status' = "ok"
           /\ width' = width /\ height' = height
           /\ Len(cells') = Len(cells)
           /\ \A row \in 0..(height - 1), column \in 0..(width - 1) :
                 /\ cells'[row * width + column + 1] =
                        LifeRule(cells[row * width + column + 1],
                                 live_neighbour_count(width, height, cells, row, column))
                 /\ (width >= 2 /\ height >= 2)
                        => live_neighbour_count(width, height, cells, row, column)
                               = MooreCount(width, height, cells, row, column)]_vars

\* A tick has returned on a grid of three rows and three columns and has left
\* a cell Alive in the middle of a row holding a Dead cell.
C1_Witness ==
    /\ Returned("tick") /\ IsGrid
    /\ width = 3 /\ height = 3
    /\ cells[5] = Alive /\ cells[4] = Dead

\* C2: on a grid with width >= 1 and height >= 1, for every (row, column) in
\* range live_neighbour_count returns the number of Alive cells among the 8
\* torus positions, each delta counted once; the result lies in 0..8.
C2_CountIsTorusMooreCount ==
    (status = "ok" /\ IsGrid /\ width >= 1 /\ height >= 1)
        => \A row \in 0..(height - 1), column \in 0..(width - 1) :
              /\ ~live_neighbour_count_panics(width, height, cells, row, column)
              /\ live_neighbour_count(width, height, cells, row, column)
                     = MooreCount(width, height, cells, row, column)
              /\ live_neighbour_count(width, height, cells, row, column) \in 0..8

-----------------------------------------------------------------------------
(* The still life (SpecStill): a grid of sides 4..MaxStillSide, all Dead but *)
(* a 2 x 2 block, and tick called on it again and again.                     *)

\* The grid of w columns and h rows, all Dead but the 2 x 2 block whose top left
\* cell is (row, column), on the torus.
BlockGrid(w, h, row, column) ==
    [i \in 1..(w * h) |->
        IF /\ ((i - 1) \div w) \in {row, (row + 1) % h}
           /\ ((i - 1) % w) \in {column, (column + 1) % w}
        THEN Alive ELSE Dead]

InitStill ==
    /\ overflowChecks \in BOOLEAN
    /\ \E w \in 4..MaxStillSide, h \in 4..MaxStillSide :
          \E row \in 0..(h - 1), column \in 0..(w - 1) :
             /\ width = w
             /\ height = h
             /\ cells = BlockGrid(w, h, row, column)
             /\ op = [name |-> "block", args |-> <<row, column>>]
    /\ status = "ok"

\* tick, called on the still life; the block's place stays on record.
TickStill ==
    /\ status = "ok"
    /\ Becomes(tick(width, height, cells), "tick", op.args)

SpecStill == InitStill /\ [][TickStill]_vars

\* C10: on a grid with width >= 4 and height >= 4 that is all Dead but a 2 x 2
\* block, anywhere on the torus, every tick returns and after any number of
\* ticks the grid is that grid.
C10_BlockIsStill ==
    /\ status = "ok"
    /\ cells = BlockGrid(width, height, op.args[1], op.args[2])

\* A tick has returned on a grid whose block straddles both wraparound edges.
C10_Witness ==
    /\ Returned("tick")
    /\ op.args = <<height - 1, width - 1>>
    /\ cells[1] = Alive /\ cells[width * height] = Alive

-----------------------------------------------------------------------------
(* set_cells with longer lists (SpecSetCells): the first state is a grid of  *)
(* sides up to MaxDim as randomize leaves it; set_cells is called on it with *)
(* any list of up to MaxCoords pairs, and then once more with the same list. *)

InitSetCells ==
    /\ overflowChecks \in BOOLEAN
    /\ \E w \in 0..MaxDim, h \in 0..MaxDim :
          \E draws \in DrawStreams(w * h) :
             /\ width = w
             /\ height = h
             /\ cells = randomize(w, h, DeadCells(w * h), draws).cells
    /\ status = "ok"
    /\ op = [name |-> "grid", args |-> <<>>]

SetCellsOnce ==
    /\ status = "ok"
    /\ op.name = "grid"
    /\ \E coords \in SeqsUpTo(CoordArgs \X CoordArgs, MaxCoords) :
          Becomes(set_cells(width, height, cells, coords), "set_cells", coords)

SetCellsAgain ==
    /\ status = "ok"
    /\ op.name = "set_cells"
    /\ Becomes(set_cells(width, height, cells, op.args), "set_cells again", op.args)

NextSetCells == SetCellsOnce \/ SetCellsAgain

SpecSetCells == InitSetCells /\ [][NextSetCells]_vars

\* The pair (row, column) is in range of the grid.
InRange(pair) == pair[1] < height /\ pair[2] < width

\* The cell of buffer index i is named in coords.
Named(coords, i) ==
    \E k \in 1..Len(coords) : coords[k][1] * width + coords[k][2] = i

\* C5: set_cells(coords) with a pair out of range anywhere in coords fails
\* (here: does not return) and leaves every cell as it was before the call.
C5_SetCellsFailsWithoutMutation ==
    [][(op'.name = "set_cells" /\ IsGrid
            /\ \E k \in 1..Len(op'.args) : ~InRange(op'.args[k]))
        => (status' = "panic" /\ cells' = cells /\ width' = width /\ height' = height)]_vars

\* C9: on a grid, set_cells(coords) with every pair in range returns and leaves
\* a cell Alive iff it was Alive or is named in coords, so that every cell not
\* named keeps its value; a second set_cells(coords) returns and changes nothing.
C9_SetCellsAddsAndIsIdempotent ==
    [][((op'.name = "set_cells" /\ IsGrid /\ \A k \in 1..Len(op'.args) : InRange(op'.args[k]))
           => /\ status' = "ok"
              /\ width' = width /\ height' = height
              /\ Len(cells') = Len(cells)
              /\ \A i \in 0..(Len(cells) - 1) :
                    (cells'[i + 1] = Alive) <=> (cells[i + 1] = Alive \/ Named(op'.args, i))
              /\ \A i \in 0..(Len(cells) - 1) :
                    ~Named(op'.args, i) => cells'[i + 1] = cells[i + 1])
       /\
       ((op'.name = "set_cells again" /\ IsGrid
            /\ \A k \in 1..Len(op'.args) : InRange(op'.args[k]))
           => (status' = "ok" /\ cells' = cells /\ width' = width /\ height' = height))]_vars

\* set_cells has returned a second time on a list that names one cell twice, on
\* a grid that holds that cell Alive and still holds a Dead cell.
C9_Witness ==
    /\ Returned("set_cells again") /\ IsGrid
    /\ Len(op.args) = 2 /\ op.args[1] = op.args[2]
    /\ \A k \in 1..Len(op.args) : InRange(op.args[k])
    /\ \E i \in 1..Len(cells) : cells[i] = Dead
    /\ \E i \in 1..Len(cells) : cells[i] = Alive

-----------------------------------------------------------------------------
(* The blinker (SpecBlinker): a grid of sides 5..MaxBlinkerSide, all Dead    *)
(* but three cells in a row, and tick called on it again and again.  The     *)
(* record keeps the middle cell and whether the ticks so far are odd.        *)

\* The grid of w columns and h rows, all Dead but (row, column - 1),
\* (row, column) and (row, column + 1), on the torus.
HorizontalGrid(w, h, row, column) ==
    [i \in 1..(w * h) |->
        IF /\ ((i - 1) \div w) = row
           /\ ((i - 1) % w) \in {(column - 1) % w, column, (column + 1) % w}
        THEN Alive ELSE Dead]

\* The grid of w columns and h rows, all Dead but (row - 1, column),
\* (row, column) and (row + 1, column), on the torus.
VerticalGrid(w, h, row, column) ==
    [i \in 1..(w * h) |->
        IF /\ ((i - 1) \div w) \in {(row - 1) % h, row, (row + 1) % h}
           /\ ((i - 1) % w) = column
        THEN Alive ELSE Dead]

InitBlinker ==
    /\ overflowChecks \in BOOLEAN
    /\ \E w \in 5..MaxBlinkerSide, h \in 5..MaxBlinkerSide :
          \E row \in 0..(h - 1), column \in 0..(w - 1) :
             /\ width = w
             /\ height = h
             /\ cells = HorizontalGrid(w, h, row, column)
             /\ op = [name |-> "blinker", args |-> <<row, column, 0>>]
    /\ status = "ok"

\* tick, called on the blinker; the record counts the ticks modulo 2.
TickBlinker ==
    /\ status = "ok"
    /\ Becomes(tick(width, height, cells), "tick",
               <<op.args[1], op.args[2], (op.args[3] + 1) % 2>>)

SpecBlinker == InitBlinker /\ [][TickBlinker]_vars

\* C11: on a grid with width >= 5 and height >= 5 that is all Dead but three
\* cells in a row around (r, c), every tick returns; after one tick (and after
\* every odd number of them) the Alive cells are the column (r - 1, c), (r, c),
\* (r + 1, c), and after the second (every even number) the grid is the first.
C11_BlinkerHasPeriodTwo ==
    /\ status = "ok"
    /\ cells = IF op.args[3] = 1
               THEN VerticalGrid(width, height, op.args[1], op.args[2])
               ELSE HorizontalGrid(width, height, op.args[1], op.args[2])

\* A second tick has returned on a blinker that lies across the wraparound
\* edge of its row, in the last row.
C11_Witness ==
    /\ Returned("tick")
    /\ op.args = <<height - 1, 0, 0>>
    /\ cells[width * height] = Alive
    /\ cells[width * (height - 1) + 1] = Alive

-----------------------------------------------------------------------------
(* Grids without rows or without columns, in the full machine (Spec) *)

-----------------------------------------------------------------------------
(* render, in the full machine (Spec) *)

\* C13: on every grid, grids without rows or columns included, render returns
\* and leaves the grid as it was; the text has height lines of width symbols
\* each, every line ended by a newline; the symbol at (r, c) is the Alive one
\* exactly when the cell is Alive, and the two symbols differ.
C13_RenderDrawsTheGrid ==
    [][(op'.name = "render" /\ IsGrid)
        => /\ status' = "ok"
           /\ width' = width /\ height' = height /\ cells' = cells
           /\ AliveGlyph # DeadGlyph
           /\ LET text == op'.args[1]
              IN  /\ Len(text) = height * (width + 1)
                  /\ \A r \in 0..(height - 1) :
                        /\ text[r * (width + 1) + width + 1] = "\n"
                        /\ \A c \in 0..(width - 1) :
                              /\ text[r * (width + 1) + c + 1] \in {AliveGlyph, DeadGlyph}
                              /\ text[r * (width + 1) + c + 1] = AliveGlyph
                                    <=> cells[r * width + c + 1] = Alive]_vars

-----------------------------------------------------------------------------
(* reset, the all-Dead grid and the dimensions, in the full machine (Spec) *)

AllDead(c) == \A i \in 1..Len(c) : c[i] = Dead

\* C14: on every grid reset returns and leaves every cell Dead, and the
\* width, the height and the length of the buffer as they were.
C14_ResetKillsEveryCell ==
    [][(op'.name = "reset" /\ IsGrid)
        => /\ status' = "ok"
           /\ width' = width /\ height' = height
           /\ Len(cells') = Len(cells)
           /\ AllDead(cells')]_vars

\* reset has returned on a grid that has cells.
C14_Witness ==
    /\ Returned("reset")
    /\ IsGrid
    /\ Len(cells) >= 2
    /\ AllDead(cells)

\* C17: a buffer that set_width, set_height or reset has returned on is all
\* Dead, and tick called on an all-Dead buffer leaves it all Dead with the
\* dimensions as they were, and returns if the Universe is a grid; so ticks
\* alone never bring a cell to life.
C17_AllDeadIsFixedPoint ==
    [][/\ ((op'.name \in {"reset", "set_width", "set_height"} /\ status' = "ok")
             => AllDead(cells'))
       /\ ((op'.name = "tick" /\ AllDead(cells))
             => /\ cells' = cells
                /\ width' = width /\ height' = height
                /\ (IsGrid => status' = "ok"))]_vars

\* tick has returned on a grid of one row and several columns, all Dead: such
\* a grid comes from set_height.
C17_Witness ==
    /\ Returned("tick")
    /\ IsGrid
    /\ height = 1
    /\ width >= 2
    /\ AllDead(cells)

\* C18: tick, toggle_cell, randomize, reset, set_cells and render leave width
\* and height as they were, whether they return or panic; set_width leaves
\* height and set_height leaves width as it was.
C18_OnlyResizeChangesDimensions ==
    [][/\ (op'.name \in {"tick", "toggle_cell", "randomize", "reset", "set_cells", "render"}
             => (width' = width /\ height' = height))
       /\ (op'.name = "set_width" => height' = height)
       /\ (op'.name = "set_height" => width' = width)]_vars

\* set_height has returned with a new height on a grid whose width is still
\* the one new built.
C18_Witness ==
    /\ Returned("set_height")
    /\ height = op.args[1]
    /\ height # InitialSide
    /\ height > 0
    /\ width = InitialSide
    /\ IsGrid

-----------------------------------------------------------------------------
(* randomize on every small grid with every stream of draws (SpecRandomize) *)

\* Draws of Math.random(), in tenths: the ends of its range and the two
\* values around the threshold.
AllDraws == {0, 4, 5, 9}

InitRandomize ==
    /\ overflowChecks \in BOOLEAN
    /\ \E w \in 0..MaxRandomCells, h \in 0..MaxRandomCells :
          /\ w * h <= MaxRandomCells
          /\ width = w
          /\ height = h
          /\ cells \in [1..(w * h) -> Cell]
    /\ status = "ok"
    /\ op = [name |-> "grid", args |-> <<>>]

\* randomize, called once; the record keeps the stream of draws and how many
\* of them the call took.
RandomizeOnce ==
    /\ status = "ok"
    /\ op.name = "grid"
    /\ \E draws \in [0..(width * height - 1) -> AllDraws] :
          Becomes(randomize(width, height, cells, draws), "randomize",
                  <<draws, RandomizeDrawCount(width, height, cells, 0)>>)

SpecRandomize == InitRandomize /\ [][RandomizeOnce]_vars

\* C15: on a grid, randomize returns having taken width * height draws, and
\* leaves the dimensions as they were and the cell at buffer index i (row-major)
\* Alive exactly when draw i is below 0.5, whatever the cell was before; so the
\* grid it leaves depends on the dimensions and the draws alone.
C15_RandomizeFollowsTheDraws ==
    [][(op'.name = "randomize" /\ IsGrid)
        => /\ status' = "ok"
           /\ width' = width /\ height' = height
           /\ op'.args[2] = width * height
           /\ cells' = [i \in 1..(width * height) |->
                           IF op'.args[1][i - 1] < 5 THEN Alive ELSE Dead]]_vars

\* randomize has returned on a grid of several cells with a draw of exactly
\* 0.5 first and a draw below 0.5 last.
C15_Witness ==
    /\ Returned("randomize")
    /\ Len(cells) >= 3
    /\ op.args[1][0] = 5
    /\ op.args[1][Len(cells) - 1] = 4
    /\ cells[1] = Dead
    /\ cells[Len(cells)] = Alive

-----------------------------------------------------------------------------
(* tick on a grid and on the same grid shifted along the torus (SpecShift):  *)
(* every grid of at most MaxShiftCells cells with a row and a column, and    *)
(* every shift of it.  The record keeps the shift through the ticks.         *)

\* Grid c (w wide, h high) with every cell moved dr rows down and dc columns
\* right on the torus: the cell at (row, column) comes from (row - dr, column - dc).
Translate(w, h, c, dr, dc) ==
    [i \in 1..(w * h) |->
        c[(((((i - 1) \div w) + h - dr) % h) * w) + ((((i - 1) % w) + w - dc) % w) + 1]]

InitShift ==
    /\ overflowChecks \in BOOLEAN
    /\ \E w \in 1..MaxShiftCells, h \in 1..MaxShiftCells :
          /\ w * h <= MaxShiftCells
          /\ width = w
          /\ height = h
          /\ cells \in [1..(w * h) -> Cell]
          /\ \E dr \in 0..(h - 1), dc \in 0..(w - 1) :
                op = [name |-> "shift", args |-> <<dr, dc>>]
    /\ status = "ok"

\* tick, called with the record kept.
TickShift ==
    /\ status = "ok"
    /\ Becomes(tick(width, height, cells), "tick", op.args)

SpecShift == InitShift /\ [][TickShift]_vars

\* C16: on a grid with width >= 1 and height >= 1, for every shift (dr, dc),
\* tick returns on the grid and on the shifted grid, and the tick of the
\* shifted grid is the shifted tick of the grid.
C16_TickCommutesWithTranslation ==
    [][op'.name = "tick"
        => /\ status' = "ok"
           /\ LET shifted ==
                      tick(width, height,
                           Translate(width, height, cells, op'.args[1], op'.args[2]))
              IN  /\ shifted.status = "ok"
                  /\ shifted.cells =
                        Translate(width, height, cells', op'.args[1], op'.args[2])]_vars

\* tick has returned on a grid of three rows or more and two columns or more,
\* shifted by a row and a column, and has left Alive and Dead cells.
C16_Witness ==
    /\ Returned("tick")
    /\ op.args = <<1, 1>>
    /\ height >= 3
    /\ width >= 2
    /\ \E i, j \in 1..Len(cells) : cells[i] = Alive /\ cells[j] = Dead

=============================================================================
